---------------------------- MODULE Spec2Model ----------------------------
(***************************************************************************)
(* Agent Bridge (src/bridge.py): the file-lock (lease) table and the       *)
(* message table of the SQLite store, and the functions that several       *)
(* agent processes run against it, each through a connection of its own.   *)
(*                                                                         *)
(* Time is counted in ticks since the epoch, TicksPerSecond ticks to the   *)
(* second.  A timestamp column holds the text datetime.isoformat() or      *)
(* CURRENT_TIMESTAMP produces; a text is modelled as the sequence of its   *)
(* fixed-width numeric fields, and texts are compared as SQLite compares   *)
(* TEXT values: field by field, a proper prefix being the smaller.         *)
(***************************************************************************)
EXTENDS Integers, Sequences, FiniteSets, TLC

\* ------------------------------------------------------------------ bounds

\* Resolution of the model's clock: ticks per second.
TicksPerSecond == 2
\* The clock stops advancing MaxTicks ticks after the initial instant.
MaxTicks == 2
\* At most MaxMsgs messages are sent.
MaxMsgs == 2
\* The message channel is called at most MaxCalls times.
MaxCalls == 4
\* The gateways read at most MaxReqs requests.
MaxReqs == 3

\* ------------------------------------------------------------------ inputs

Clients == {"c1", "c2"}
Agents == {"A", "B"}
Paths == {"p"}
Reasons == {"", "edit"}
\* ttl_seconds: the code accepts any integer.
TTLs == {0, 1, 2}
Senders == {"A"}
Subjects == {"[TASK]"}
Bodies == {""}
\* thread_id: None by default.
ThreadIds == {<<>>}
\* limit of fetch_inbox: 20 by default.
Limits == {1, 20}
\* message_id of mark_read and ack_message: the ids send_message may assign.
MessageIds == 1..MaxMsgs

\* The first instant of the model (late enough for every text to be that of
\* an instant after the epoch).
StartNow == 2 * TicksPerSecond
LastNow == StartNow + MaxTicks

\* SQL NULL / Python None in a column or a variable.
NULL == <<>>

\* The local time zones the processes may run in: the UTC offset (seconds) in
\* force before and from the instant "at" on.  One zone of constant offset,
\* one whose clocks go forward and one whose clocks go back a second.
Zones ==
    { [at |-> 0, before |-> 1, after |-> 1],
      [at |-> StartNow + TicksPerSecond, before |-> 0, after |-> 1],
      [at |-> StartNow + TicksPerSecond, before |-> 1, after |-> 0] }

VARIABLES
    now,         \* the wall clock (UTC), in ticks
    tz,          \* the local time zone of the processes
    file_locks,  \* table file_locks: a set of rows
    messages,    \* table messages: a set of rows
    msg_seq,     \* sqlite_sequence of messages: the largest id ever assigned
    pc,          \* per connection: where its current call stands
    frame,       \* per connection: the arguments and locals of that call
    result,      \* per connection: what its last call returned
    calls,       \* the number of calls of the message channel, or of
                 \* requests read by the gateways, so far
    loop,        \* per gateway process: where main's loop stands
    msg,         \* per gateway process: the request it is handling
    stdout       \* per gateway process: the lines written since it last
                 \* read a line

\* The state of the gateway processes (src/mcp_server.py).
gateway == <<loop, msg, stdout>>

vars ==
    <<now, tz, file_locks, messages, msg_seq, pc, frame, result, calls,
      gateway>>

\* ------------------------------------------------------------- time, text

\* datetime.utcnow(): the naive UTC datetime of the current instant.
utcnow == now

\* datetime.isoformat(): the microsecond field is left out when it is 0.
isoformat(t) ==
    IF t % TicksPerSecond = 0
    THEN << t \div TicksPerSecond >>
    ELSE << t \div TicksPerSecond, t % TicksPerSecond >>

\* SQLite's comparison of two TEXT values (BINARY collation): -1, 0 or 1.
RECURSIVE TextCmp(_, _)
TextCmp(a, b) ==
    IF a = <<>> THEN (IF b = <<>> THEN 0 ELSE -1)
    ELSE IF b = <<>> THEN 1
    ELSE IF Head(a) < Head(b) THEN -1
    ELSE IF Head(a) > Head(b) THEN 1
    ELSE TextCmp(Tail(a), Tail(b))

TextGT(a, b) == TextCmp(a, b) = 1

\* time.localtime(u): the local wall time of the instant u.
local(u) ==
    u + TicksPerSecond * (IF u < tz.at THEN tz.before ELSE tz.after)

max_fold_seconds == 24 * 3600

\* datetime.timestamp() of a naive datetime t: t is read as local time
\* (fold = 0) and the instant u with local(u) = t is returned.
timestamp(t) ==
    LET a  == local(t) - t
        u1 == t - a
        t1 == local(u1)
        p  == u1 - TicksPerSecond * max_fold_seconds
        b  == IF t1 = t THEN local(p) - p ELSE t1 - u1
        u2 == t - b
        t2 == local(u2)
    IN  IF t1 = t /\ a = b THEN u1
        ELSE IF t2 = t THEN u2
        ELSE IF t1 = t THEN u1
        ELSE IF u1 > u2 THEN u1 ELSE u2

\* datetime.fromtimestamp(u): the naive local datetime of the instant u.
fromtimestamp(u) == local(u)

\* ------------------------------------------------------------ connections

Idle == [op |-> "none"]
NoResult == [status |-> "none"]

Begin(c) == pc[c] = "idle"

\* A call of the message channel begins.
MsgBegin(c) ==
    /\ Begin(c)
    /\ calls < MaxCalls
    /\ calls' = calls + 1

\* The wall clock advances by one tick.
Tick ==
    /\ now < LastNow
    /\ now' = now + 1
    /\ UNCHANGED <<gateway, tz, file_locks, messages, msg_seq, pc, frame, result, calls>>

\* -------------------------------------------------------------- file locks

\* lock_file, lines 146-147: expires_str from the first reading of the clock.
ExpiresStr(ttl_seconds) ==
    isoformat(fromtimestamp(timestamp(utcnow) + TicksPerSecond * ttl_seconds))

\* Mutant of SelectLive: the comparison the other way round.
SelectLive_Reversed(path, now_str) ==
    { r \in file_locks : r.path = path /\ TextGT(now_str, r.expires_at) }

\* Mutant of SelectLive: a row still counts at the instant it expires.
SelectLive_Inclusive(path, now_str) ==
    { r \in file_locks : r.path = path /\ TextCmp(r.expires_at, now_str) >= 0 }

\* SELECT * FROM file_locks WHERE path = ? AND expires_at > ?
SelectLive(path, now_str) ==
    { r \in file_locks : r.path = path /\ TextGT(r.expires_at, now_str) }

\* Mutant of IsConflict: the holder is not compared with the requester.
IsConflict_AnyHolder(existing, agent) ==
    existing # NULL

\* if existing and existing["agent"] != agent
IsConflict(existing, agent) ==
    existing # NULL /\ existing.agent # agent

\* Mutant of Upsert: a plain INSERT into a table without the primary key.
Upsert_NoKey(rows, path, agent, reason, expires_str) ==
    rows \cup { [path |-> path, agent |-> agent, reason |-> reason,
                 expires_at |-> expires_str] }

\* INSERT INTO file_locks ... ON CONFLICT(path) DO UPDATE SET agent, reason,
\* expires_at: path is the primary key, the row of the path is replaced.
Upsert(rows, path, agent, reason, expires_str) ==
    { r \in rows : r.path # path }
        \cup { [path |-> path, agent |-> agent, reason |-> reason,
                expires_at |-> expires_str] }

\* Mutant of DeleteLock: the holder is not matched.
DeleteLock_AnyHolder(rows, path, agent) ==
    { r \in rows : r.path # path }

\* Mutant of DeleteLock: a row that has expired is not deleted.
DeleteLock_LiveOnly(rows, path, agent) ==
    { r \in rows :
         ~(/\ r.path = path
           /\ r.agent = agent
           /\ TextGT(r.expires_at, isoformat(utcnow))) }

\* DELETE FROM file_locks WHERE path = ? AND agent = ?
DeleteLock(rows, path, agent) ==
    { r \in rows : ~(r.path = path /\ r.agent = agent) }

\* lock_file is called; expires and expires_str are computed from the first
\* reading of the clock (lines 145-147).  The argument reason is read by the
\* upsert alone and is drawn there.
LockCall(c, path, agent, ttl_seconds) ==
    /\ frame' = [frame EXCEPT ![c] =
                    [op |-> "lock", path |-> path, agent |-> agent,
                     ttl_seconds |-> ttl_seconds,
                     expires_str |-> ExpiresStr(ttl_seconds),
                     now_str |-> NULL]]
    /\ pc' = [pc EXCEPT ![c] = "lock_now"]
    /\ result' = [result EXCEPT ![c] = NoResult]

\* A process calls lock_file.
LockBegin(c) ==
    /\ Begin(c)
    /\ \E path \in Paths, agent \in Agents, ttl \in TTLs :
          LockCall(c, path, agent, ttl)
    /\ UNCHANGED <<gateway, now, tz, file_locks, messages, msg_seq, calls>>

\* The SELECT's parameter datetime.utcnow().isoformat() is evaluated (line 152):
\* the second reading of the clock.
LockNow(c) ==
    /\ pc[c] = "lock_now"
    /\ frame' = [frame EXCEPT ![c].now_str = isoformat(utcnow)]
    /\ pc' = [pc EXCEPT ![c] = "lock_select"]
    /\ UNCHANGED <<gateway, now, tz, file_locks, messages, msg_seq, result, calls>>

\* The SELECT runs and the conflict test is made (lines 150-156): fetchone()
\* gives a matching row or None.  Without a conflict the call goes on to the
\* upsert.
LockSelect(c) ==
    /\ pc[c] = "lock_select"
    /\ LET live == SelectLive(frame[c].path, frame[c].now_str)
       IN  \E existing \in (IF live = {} THEN {NULL} ELSE live) :
              IF IsConflict(existing, frame[c].agent)
              THEN /\ result' = [result EXCEPT ![c] =
                                   [status |-> "conflict",
                                    holder |-> existing.agent,
                                    path |-> frame[c].path]]
                   /\ pc' = [pc EXCEPT ![c] = "idle"]
                   /\ frame' = [frame EXCEPT ![c] = Idle]
              ELSE /\ pc' = [pc EXCEPT ![c] = "lock_upsert"]
                   /\ UNCHANGED <<gateway, frame, result>>
    /\ UNCHANGED <<gateway, now, tz, file_locks, messages, msg_seq, calls>>

\* The upsert, its commit and the return (lines 158-167).
LockUpsert(c) ==
    /\ pc[c] = "lock_upsert"
    /\ \E reason \in Reasons :
          file_locks' = Upsert(file_locks, frame[c].path, frame[c].agent,
                               reason, frame[c].expires_str)
    /\ result' = [result EXCEPT ![c] =
                     [status |-> "locked", path |-> frame[c].path,
                      expires_at |-> frame[c].expires_str]]
    /\ pc' = [pc EXCEPT ![c] = "idle"]
    /\ frame' = [frame EXCEPT ![c] = Idle]
    /\ UNCHANGED <<gateway, now, tz, messages, msg_seq, calls>>

\* unlock_file is called (lines 170-172).
UnlockCall(c, path, agent) ==
    /\ frame' = [frame EXCEPT ![c] =
                    [op |-> "unlock", path |-> path, agent |-> agent]]
    /\ pc' = [pc EXCEPT ![c] = "unlock_delete"]
    /\ result' = [result EXCEPT ![c] = NoResult]

\* A process calls unlock_file.
UnlockBegin(c) ==
    /\ Begin(c)
    /\ \E path \in Paths, agent \in Agents : UnlockCall(c, path, agent)
    /\ UNCHANGED <<gateway, now, tz, file_locks, messages, msg_seq, calls>>

\* The DELETE, its commit and the return (lines 173-175).
UnlockDelete(c) ==
    /\ pc[c] = "unlock_delete"
    /\ file_locks' = DeleteLock(file_locks, frame[c].path, frame[c].agent)
    /\ result' = [result EXCEPT ![c] =
                     [status |-> "unlocked", path |-> frame[c].path]]
    /\ pc' = [pc EXCEPT ![c] = "idle"]
    /\ frame' = [frame EXCEPT ![c] = Idle]
    /\ UNCHANGED <<gateway, now, tz, messages, msg_seq, calls>>

\* list_locks(agent = None): the filter is None or a string; None is NULL and
\* the string a is << a >>.
AgentFilters == { NULL } \cup { << a >> : a \in Agents \cup { "" } }

\* if agent: None and the empty string are false.
Truthy(agent) == agent # NULL /\ agent[1] # ""

\* Mutant of SelectLocks: the condition on expires_at is left out.
SelectLocks_Expired(agent, now_str) ==
    IF Truthy(agent)
    THEN { r \in file_locks : r.agent = agent[1] }
    ELSE file_locks

\* SELECT * FROM file_locks WHERE [agent = ? AND] expires_at > ?
SelectLocks(agent, now_str) ==
    IF Truthy(agent)
    THEN { r \in file_locks :
              r.agent = agent[1] /\ TextGT(r.expires_at, now_str) }
    ELSE { r \in file_locks : TextGT(r.expires_at, now_str) }

\* fetchall(): the rows of a SELECT without ORDER BY, in any order.
AnyOrder(rows) ==
    { s \in [1..Cardinality(rows) -> rows] :
         \A i, j \in DOMAIN s : i # j => s[i] # s[j] }

\* list_locks is called and reads the clock (lines 178-181).
ListCall(c, agent) ==
    /\ frame' = [frame EXCEPT ![c] =
                    [op |-> "list", agent |-> agent,
                     now_str |-> isoformat(utcnow)]]
    /\ pc' = [pc EXCEPT ![c] = "list_select"]
    /\ result' = [result EXCEPT ![c] = NoResult]

\* A process calls list_locks.
ListBegin(c) ==
    /\ Begin(c)
    /\ \E agent \in AgentFilters : ListCall(c, agent)
    /\ UNCHANGED <<gateway, now, tz, file_locks, messages, msg_seq, calls>>

\* The SELECT and the return of its rows (lines 182-191).
ListSelect(c) ==
    /\ pc[c] = "list_select"
    /\ \E s \in AnyOrder(SelectLocks(frame[c].agent, frame[c].now_str)) :
          result' = [result EXCEPT ![c] = [status |-> "locks", rows |-> s]]
    /\ pc' = [pc EXCEPT ![c] = "idle"]
    /\ frame' = [frame EXCEPT ![c] = Idle]
    /\ UNCHANGED <<gateway, now, tz, file_locks, messages, msg_seq, calls>>

\* ---------------------------------------------------------------- messages

\* created_at TEXT DEFAULT CURRENT_TIMESTAMP: SQLite's "YYYY-MM-DD HH:MM:SS",
\* the UTC time of the INSERT cut to the second.
CURRENT_TIMESTAMP == << now \div TicksPerSecond >>

\* Mutant of NextId: the sequence does not advance after the first id.
NextId_NoAdvance == IF msg_seq = 0 THEN 1 ELSE msg_seq

\* id INTEGER PRIMARY KEY AUTOINCREMENT: one more than the largest id ever
\* assigned.
NextId == msg_seq + 1

\* Mutant of InboxRows: the filter on read_at is left out.
InboxRows_ReadToo(agent, unread_only) ==
    { m \in messages : m.recipient = agent }

\* WHERE recipient = ? [AND read_at IS NULL]
InboxRows(agent, unread_only) ==
    { m \in messages :
         m.recipient = agent /\ (unread_only => m.read_at = NULL) }

\* ORDER BY created_at DESC: the orders the sort may give the rows, rows of
\* equal created_at in any order.
OrderByCreatedDesc(rows) ==
    { s \in [1..Cardinality(rows) -> rows] :
         /\ \A i, j \in DOMAIN s : i # j => s[i] # s[j]
         /\ \A i, j \in DOMAIN s :
               i < j => TextCmp(s[i].created_at, s[j].created_at) >= 0 }

\* LIMIT ?
Limit(s, limit) ==
    SubSeq(s, 1, IF Len(s) < limit THEN Len(s) ELSE limit)

\* Mutant of UpdateRead: the recipient is not matched.
UpdateRead_AnyAgent(rows, message_id, agent, read_ts) ==
    { IF m.id = message_id
      THEN [m EXCEPT !.read_at = read_ts]
      ELSE m : m \in rows }

\* UPDATE messages SET read_at = ? WHERE id = ? AND recipient = ?
UpdateRead(rows, message_id, agent, read_ts) ==
    { IF m.id = message_id /\ m.recipient = agent
      THEN [m EXCEPT !.read_at = read_ts]
      ELSE m : m \in rows }

\* UPDATE messages SET ack_at = ?, read_at = COALESCE(read_at, ?)
\* WHERE id = ? AND recipient = ?
UpdateAck(rows, message_id, agent, ack_ts, read_ts) ==
    { IF m.id = message_id /\ m.recipient = agent
      THEN [m EXCEPT !.ack_at = ack_ts,
                     !.read_at = IF m.read_at = NULL THEN read_ts
                                 ELSE m.read_at]
      ELSE m : m \in rows }

\* send_message is called (lines 96-98).
SendBegin(c) ==
    /\ MsgBegin(c)
    /\ msg_seq < MaxMsgs
    /\ \E sender \in Senders, recipient \in Agents, subject \in Subjects,
          body \in Bodies, thread_id \in ThreadIds :
          frame' = [frame EXCEPT ![c] =
                      [op |-> "send", sender |-> sender,
                       recipient |-> recipient, subject |-> subject,
                       body |-> body, thread_id |-> thread_id]]
    /\ pc' = [pc EXCEPT ![c] = "send_insert"]
    /\ result' = [result EXCEPT ![c] = NoResult]
    /\ UNCHANGED <<gateway, now, tz, file_locks, messages, msg_seq>>

\* The INSERT, its commit and the return (lines 99-104).
SendInsert(c) ==
    /\ pc[c] = "send_insert"
    /\ msg_seq < MaxMsgs
    /\ messages' = messages \cup
          { [id |-> NextId, sender |-> frame[c].sender,
             recipient |-> frame[c].recipient, subject |-> frame[c].subject,
             body |-> frame[c].body, thread_id |-> frame[c].thread_id,
             created_at |-> CURRENT_TIMESTAMP, read_at |-> NULL,
             ack_at |-> NULL] }
    /\ msg_seq' = NextId
    /\ result' = [result EXCEPT ![c] = [status |-> "sent", id |-> NextId]]
    /\ pc' = [pc EXCEPT ![c] = "idle"]
    /\ frame' = [frame EXCEPT ![c] = Idle]
    /\ UNCHANGED <<gateway, now, tz, file_locks, calls>>

\* fetch_inbox is called and its query is built (lines 107-113).
InboxBegin(c) ==
    /\ MsgBegin(c)
    /\ \E agent \in Agents, unread_only \in BOOLEAN, limit \in Limits :
          frame' = [frame EXCEPT ![c] =
                      [op |-> "inbox", agent |-> agent,
                       unread_only |-> unread_only, limit |-> limit]]
    /\ pc' = [pc EXCEPT ![c] = "inbox_select"]
    /\ result' = [result EXCEPT ![c] = NoResult]
    /\ UNCHANGED <<gateway, now, tz, file_locks, messages, msg_seq>>

\* The SELECT and the return of its rows (lines 114-115).
InboxSelect(c) ==
    /\ pc[c] = "inbox_select"
    /\ \E s \in OrderByCreatedDesc(InboxRows(frame[c].agent,
                                             frame[c].unread_only)) :
          result' = [result EXCEPT ![c] =
                       [status |-> "rows",
                        rows |-> Limit(s, frame[c].limit)]]
    /\ pc' = [pc EXCEPT ![c] = "idle"]
    /\ frame' = [frame EXCEPT ![c] = Idle]
    /\ UNCHANGED <<gateway, now, tz, file_locks, messages, msg_seq, calls>>

\* mark_read is called; the UPDATE's parameter datetime.utcnow().isoformat()
\* is evaluated (lines 118-123).
MarkReadBegin(c) ==
    /\ MsgBegin(c)
    /\ \E message_id \in MessageIds, agent \in Agents :
          frame' = [frame EXCEPT ![c] =
                      [op |-> "mark_read", message_id |-> message_id,
                       agent |-> agent, read_ts |-> isoformat(utcnow)]]
    /\ pc' = [pc EXCEPT ![c] = "mark_read_update"]
    /\ result' = [result EXCEPT ![c] = NoResult]
    /\ UNCHANGED <<gateway, now, tz, file_locks, messages, msg_seq>>

\* The UPDATE, its commit and the return (lines 121-125).
MarkReadUpdate(c) ==
    /\ pc[c] = "mark_read_update"
    /\ messages' = UpdateRead(messages, frame[c].message_id, frame[c].agent,
                              frame[c].read_ts)
    /\ result' = [result EXCEPT ![c] =
                     [status |-> "read", id |-> frame[c].message_id]]
    /\ pc' = [pc EXCEPT ![c] = "idle"]
    /\ frame' = [frame EXCEPT ![c] = Idle]
    /\ UNCHANGED <<gateway, now, tz, file_locks, msg_seq, calls>>

\* ack_message is called; the first parameter of its UPDATE, the value of
\* ack_at, is evaluated (lines 128-134): the first reading of the clock.
AckBegin(c) ==
    /\ MsgBegin(c)
    /\ \E message_id \in MessageIds, agent \in Agents :
          frame' = [frame EXCEPT ![c] =
                      [op |-> "ack", message_id |-> message_id,
                       agent |-> agent, ack_ts |-> isoformat(utcnow),
                       read_ts |-> NULL]]
    /\ pc' = [pc EXCEPT ![c] = "ack_now"]
    /\ result' = [result EXCEPT ![c] = NoResult]
    /\ UNCHANGED <<gateway, now, tz, file_locks, messages, msg_seq>>

\* The second parameter, the value COALESCE gives read_at, is evaluated
\* (line 134): the second reading of the clock.
AckNow(c) ==
    /\ pc[c] = "ack_now"
    /\ frame' = [frame EXCEPT ![c].read_ts = isoformat(utcnow)]
    /\ pc' = [pc EXCEPT ![c] = "ack_update"]
    /\ UNCHANGED <<gateway, now, tz, file_locks, messages, msg_seq, result, calls>>

\* The UPDATE, its commit and the return (lines 131-136).
AckUpdate(c) ==
    /\ pc[c] = "ack_update"
    /\ messages' = UpdateAck(messages, frame[c].message_id, frame[c].agent,
                             frame[c].ack_ts, frame[c].read_ts)
    /\ result' = [result EXCEPT ![c] =
                     [status |-> "acknowledged", id |-> frame[c].message_id]]
    /\ pc' = [pc EXCEPT ![c] = "idle"]
    /\ frame' = [frame EXCEPT ![c] = Idle]
    /\ UNCHANGED <<gateway, now, tz, file_locks, msg_seq, calls>>

\* ------------------------------------------------------------- the gateway
\* src/mcp_server.py: a gateway process reads one JSON-RPC message to the line
\* from its stdin, handles it and writes what it answers to its stdout.  A
\* call of a tool runs the function of src/bridge.py in the process, step by
\* step as above, other processes running theirs in between.

\* The JSON values of a request.
JStr(s) == [type |-> "string", s |-> s]
JInt(n) == [type |-> "integer", n |-> n]
JArr == [type |-> "array"]
JObj(fields) == [type |-> "object", fields |-> fields]

\* The fields of the JSON object {}.
NoFields == [k \in {} |-> k]

\* args.get("ttl_seconds", 1800)
DefaultTtl == 1800

\* msg.get("id"): None (NULL) when the message has no id, else << id >>.  The
\* clients number their requests: the n-th request read has the id n.
Ids == { << n >> : n \in 1..MaxReqs }

\* The arguments a tools/call of lock may come with: well-formed ones, path
\* missing, path a number, ttl_seconds a string, and an array in the place of
\* the object.  (reason is read by the upsert alone and is drawn there.)
LockArguments ==
    { JObj([path |-> JStr("p"), agent |-> JStr(a)]) : a \in Agents }
       \cup { JObj([path |-> JStr("p"), agent |-> JStr("A"),
                    ttl_seconds |-> JInt(1)]),
              JObj([agent |-> JStr("A")]),
              JObj([path |-> JInt(123), agent |-> JStr("A")]),
              JObj([path |-> JStr("p"), agent |-> JStr("A"),
                    ttl_seconds |-> JStr("abc")]),
              JArr }

UnlockArguments ==
    { JObj([path |-> JStr("p"), agent |-> JStr(a)]) : a \in Agents }
       \cup { JObj([path |-> JStr("p")]) }

LocksArguments ==
    { JObj(NoFields), JObj([agent |-> JStr("A")]) }

\* params of a tools/call: the tools of the lease manager and a name that is
\* no tool's.
ToolCalls ==
    [name : { "lock" }, arguments : LockArguments]
       \cup [name : { "unlock" }, arguments : UnlockArguments]
       \cup [name : { "locks" }, arguments : LocksArguments]
       \cup [name : { "nope" }, arguments : { JObj(NoFields) }]

\* TOOLS: the inputSchema of the tools of the lease manager, i.e. the type of
\* every property and the properties required.
TOOLS ==
    [lock   |-> [properties |-> [path |-> "string", agent |-> "string",
                                 reason |-> "string",
                                 ttl_seconds |-> "integer"],
                 required |-> { "path", "agent" }],
     unlock |-> [properties |-> [path |-> "string", agent |-> "string"],
                 required |-> { "path", "agent" }],
     locks  |-> [properties |-> [agent |-> "string"],
                 required |-> {}]]

\* The messages a line of stdin may hold.
Requests ==
    [id : Ids, method : { "initialize", "tools/list", "bogus" }]
       \cup [id : { NULL }, method : { "notifications/initialized" }]
       \cup [id : Ids, method : { "tools/call" }, params : ToolCalls]

success_response(id, res) == [id |-> id, result |-> res]

\* Mutant of error_response: the id of the request is left out.
error_response_NoId(id, code) == [id |-> NULL, error |-> [code |-> code]]

error_response(id, code) == [id |-> id, error |-> [code |-> code]]

\* Mutant of CallResponse: a conflict is answered with an error.
CallResponse_ConflictError(id, res) ==
    IF res.status = "conflict"
    THEN error_response(id, -32000)
    ELSE success_response(id, [content |-> res])

\* success_response(id, {"content": [{"type": "text", "text":
\* json.dumps(result)}]}): the text is the JSON of the value the tool returned.
CallResponse(id, res) == success_response(id, [content |-> res])

\* write_message(m): a line is written to stdout.
write_message(c, m) ==
    stdout' = [stdout EXCEPT ![c] = Append(stdout[c], m)]

\* The handling of the message is over: main goes round its loop.
NextLine(c) ==
    /\ loop' = [loop EXCEPT ![c] = "read"]
    /\ msg' = [msg EXCEPT ![c] = NULL]

\* except Exception as e: write_message(error_response(id, -32000, str(e)))
Except(c) ==
    /\ write_message(c, error_response(msg[c].id, -32000))
    /\ NextLine(c)
    /\ UNCHANGED <<pc, frame, result>>

\* args[k] for every k of keys goes through: args is an object (else
\* TypeError) that has the keys (else KeyError).
Subscript(args, keys) ==
    args.type = "object" /\ keys \subseteq DOMAIN args.fields

\* args.get(k, default)
Get(args, k, default) ==
    IF k \in DOMAIN args.fields THEN args.fields[k] ELSE default

\* The TEXT that SQLite makes of a value bound to a column of TEXT affinity
\* (path, agent): a string as it is, a number in decimal.
SqlText(v) == IF v.type = "string" THEN v.s ELSE ToString(v.n)

\* msg = read_message(): a line is read and parsed (lines 243, 247-249).
GwRead(c) ==
    /\ loop[c] = "read"
    /\ calls < MaxReqs
    /\ calls' = calls + 1
    /\ \E m \in Requests :
          /\ m.id \in { NULL, << calls + 1 >> }
          /\ msg' = [msg EXCEPT ![c] = m]
    /\ loop' = [loop EXCEPT ![c] = "dispatch"]
    /\ stdout' = [stdout EXCEPT ![c] = <<>>]
    /\ UNCHANGED <<now, tz, file_locks, messages, msg_seq, pc, frame, result>>

\* stdin is at its end (sys.exit), or the line is not JSON (break), or it is
\* JSON but not an object (msg.get raises outside the try): the process ends
\* (lines 22-25, 242-249).
GwExit(c) ==
    /\ loop[c] = "read"
    /\ loop' = [loop EXCEPT ![c] = "exit"]
    /\ UNCHANGED <<now, tz, file_locks, messages, msg_seq, pc, frame, result,
                   calls, msg, stdout>>

\* method == "initialize" (lines 252-257)
GwInitialize(c) ==
    /\ loop[c] = "dispatch"
    /\ msg[c].method = "initialize"
    /\ write_message(c, success_response(msg[c].id,
                           [serverInfo |-> "agent-bridge"]))
    /\ NextLine(c)
    /\ UNCHANGED <<now, tz, file_locks, messages, msg_seq, pc, frame, result,
                   calls>>

\* method == "notifications/initialized": no response (lines 259-260)
GwInitialized(c) ==
    /\ loop[c] = "dispatch"
    /\ msg[c].method = "notifications/initialized"
    /\ NextLine(c)
    /\ UNCHANGED <<now, tz, file_locks, messages, msg_seq, pc, frame, result,
                   calls, stdout>>

\* method == "tools/list" (lines 262-263)
GwToolsList(c) ==
    /\ loop[c] = "dispatch"
    /\ msg[c].method = "tools/list"
    /\ write_message(c, success_response(msg[c].id,
                           [tools |-> { "lock", "unlock", "locks" }]))
    /\ NextLine(c)
    /\ UNCHANGED <<now, tz, file_locks, messages, msg_seq, pc, frame, result,
                   calls>>

\* else: Unknown method (lines 273-274)
GwUnknownMethod(c) ==
    /\ loop[c] = "dispatch"
    /\ msg[c].method \notin { "initialize", "notifications/initialized",
                              "tools/list", "tools/call" }
    /\ write_message(c, error_response(msg[c].id, -32601))
    /\ NextLine(c)
    /\ UNCHANGED <<now, tz, file_locks, messages, msg_seq, pc, frame, result,
                   calls>>

\* tools/call of lock (lines 265-268, 218-224): the arguments are taken out
\* of args and lock_file is called; a missing path or agent raises, and so
\* does, in lock_file (bridge.py line 146), a ttl_seconds that is no number.
GwCallLock(c) ==
    /\ loop[c] = "dispatch"
    /\ msg[c].method = "tools/call"
    /\ msg[c].params.name = "lock"
    /\ LET args == msg[c].params.arguments
           ttl_seconds == Get(args, "ttl_seconds", JInt(DefaultTtl))
       IN  IF Subscript(args, { "path", "agent" })
              /\ ttl_seconds.type = "integer"
           THEN /\ LockCall(c, SqlText(args.fields.path),
                            SqlText(args.fields.agent), ttl_seconds.n)
                /\ loop' = [loop EXCEPT ![c] = "call"]
                /\ UNCHANGED <<msg, stdout>>
           ELSE Except(c)
    /\ UNCHANGED <<now, tz, file_locks, messages, msg_seq, calls>>

\* tools/call of unlock (lines 265-268, 225-226)
GwCallUnlock(c) ==
    /\ loop[c] = "dispatch"
    /\ msg[c].method = "tools/call"
    /\ msg[c].params.name = "unlock"
    /\ LET args == msg[c].params.arguments
       IN  IF Subscript(args, { "path", "agent" })
           THEN /\ UnlockCall(c, SqlText(args.fields.path),
                              SqlText(args.fields.agent))
                /\ loop' = [loop EXCEPT ![c] = "call"]
                /\ UNCHANGED <<msg, stdout>>
           ELSE Except(c)
    /\ UNCHANGED <<now, tz, file_locks, messages, msg_seq, calls>>

\* tools/call of locks (lines 265-268, 227-228): list_locks(args.get("agent"))
GwCallLocks(c) ==
    /\ loop[c] = "dispatch"
    /\ msg[c].method = "tools/call"
    /\ msg[c].params.name = "locks"
    /\ LET args == msg[c].params.arguments
       IN  IF args.type = "object"
           THEN /\ ListCall(c, IF "agent" \in DOMAIN args.fields
                               THEN << SqlText(args.fields.agent) >>
                               ELSE NULL)
                /\ loop' = [loop EXCEPT ![c] = "call"]
                /\ UNCHANGED <<msg, stdout>>
           ELSE Except(c)
    /\ UNCHANGED <<now, tz, file_locks, messages, msg_seq, calls>>

\* tools/call of a name that is no tool's: raise ValueError (lines 235-236)
GwCallUnknownTool(c) ==
    /\ loop[c] = "dispatch"
    /\ msg[c].method = "tools/call"
    /\ msg[c].params.name \notin { "lock", "unlock", "locks" }
    /\ Except(c)
    /\ UNCHANGED <<now, tz, file_locks, messages, msg_seq, calls>>

\* The tool has returned: its result is written (lines 268-271).
GwReturn(c) ==
    /\ loop[c] = "call"
    /\ pc[c] = "idle"
    /\ write_message(c, CallResponse(msg[c].id, result[c]))
    /\ NextLine(c)
    /\ UNCHANGED <<now, tz, file_locks, messages, msg_seq, pc, frame, result,
                   calls>>

\* ----------------------------------------------------------- specification

Init ==
    /\ now = StartNow
    /\ tz \in Zones
    /\ file_locks = {}
    /\ messages = {}
    /\ msg_seq = 0
    /\ pc = [c \in Clients |-> "idle"]
    /\ frame = [c \in Clients |-> Idle]
    /\ result = [c \in Clients |-> NoResult]
    /\ calls = 0
    /\ loop = [c \in Clients |-> "read"]
    /\ msg = [c \in Clients |-> NULL]
    /\ stdout = [c \in Clients |-> <<>>]

LeaseNext ==
    \/ Tick
    \/ \E c \in Clients : LockBegin(c)
    \/ \E c \in Clients : LockNow(c)
    \/ \E c \in Clients : LockSelect(c)
    \/ \E c \in Clients : LockUpsert(c)
    \/ \E c \in Clients : UnlockBegin(c)
    \/ \E c \in Clients : UnlockDelete(c)

\* The lease subsystem alone: the calls that touch file_locks.
LeaseSpec == Init /\ [][LeaseNext]_vars

MsgNext ==
    \/ Tick
    \/ \E c \in Clients : SendBegin(c)
    \/ \E c \in Clients : SendInsert(c)
    \/ \E c \in Clients : MarkReadBegin(c)
    \/ \E c \in Clients : MarkReadUpdate(c)
    \/ \E c \in Clients : AckBegin(c)
    \/ \E c \in Clients : AckNow(c)
    \/ \E c \in Clients : AckUpdate(c)

\* The message channel alone: the calls that touch messages.  None of them
\* reads the time zone.
MsgInit == Init /\ tz.before = tz.after

MsgSpec == MsgInit /\ [][MsgNext]_vars

InboxNext ==
    \/ MsgNext
    \/ \E c \in Clients : InboxBegin(c)
    \/ \E c \in Clients : InboxSelect(c)

\* The message channel with its reader, fetch_inbox.
InboxSpec == MsgInit /\ [][InboxNext]_vars

\* The tables list_locks may find: lock_file leaves at most one row to a path
\* (path is the primary key), held by any agent, expiring at any instant.
ListPaths == Paths \cup { "q" }

ListRows ==
    [path : ListPaths, agent : Agents, reason : { "" },
     expires_at : { isoformat(t) : t \in StartNow - 1 .. LastNow + 1 }]

ListTables ==
    { rows \in SUBSET ListRows :
         \A r, q \in rows : r.path = q.path => r = q }

ListInit ==
    /\ now = StartNow
    /\ tz \in Zones /\ tz.before = tz.after
    /\ file_locks \in ListTables
    /\ messages = {}
    /\ msg_seq = 0
    /\ pc = [c \in Clients |-> "idle"]
    /\ frame = [c \in Clients |-> Idle]
    /\ result = [c \in Clients |-> NoResult]
    /\ calls = 0
    /\ loop = [c \in Clients |-> "read"]
    /\ msg = [c \in Clients |-> NULL]
    /\ stdout = [c \in Clients |-> <<>>]

ListNext ==
    \/ Tick
    \/ \E c \in Clients : ListBegin(c)
    \/ \E c \in Clients : ListSelect(c)
    \/ \E c \in Clients : UnlockBegin(c)
    \/ \E c \in Clients : UnlockDelete(c)

\* The reader of the lease table, list_locks, over every table the table may
\* be, with releases going on beside it.
ListSpec == ListInit /\ [][ListNext]_vars

GatewayNext ==
    \/ \E c \in Clients : GwRead(c)
    \/ \E c \in Clients : GwExit(c)
    \/ \E c \in Clients : GwInitialize(c)
    \/ \E c \in Clients : GwInitialized(c)
    \/ \E c \in Clients : GwToolsList(c)
    \/ \E c \in Clients : GwUnknownMethod(c)
    \/ \E c \in Clients : GwCallLock(c)
    \/ \E c \in Clients : GwCallUnlock(c)
    \/ \E c \in Clients : GwCallLocks(c)
    \/ \E c \in Clients : GwCallUnknownTool(c)
    \/ \E c \in Clients : GwReturn(c)
    \/ \E c \in Clients : LockNow(c)
    \/ \E c \in Clients : LockSelect(c)
    \/ \E c \in Clients : LockUpsert(c)
    \/ \E c \in Clients : UnlockDelete(c)
    \/ \E c \in Clients : ListSelect(c)

\* The gateway processes, every call of a tool of the lease manager coming
\* in as a request.  The time zone is one of constant offset, and the clock
\* is left where it is: no step of the gateway reads it, and what the tools
\* do as it advances is what LeaseSpec and ListSpec cover.
GatewayInit == Init /\ tz.before = tz.after

GatewaySpec == GatewayInit /\ [][GatewayNext]_vars

Next == LeaseNext \/ InboxNext \/ ListNext \/ GatewayNext

\* The whole store.
Spec == Init /\ [][Next]_vars

\* ------------------------------------------------------------ lease claims
\* The claims speak of instants, not of texts: TextTicks reads a stored text
\* back as an instant, and a row is live when that instant is after the clock.

\* The instant (in ticks) a timestamp text denotes.
TextTicks(s) ==
    s[1] * TicksPerSecond + (IF Len(s) > 1 THEN s[2] ELSE 0)

\* The lease rows of a path that have not expired at the current instant.
LiveRows(path) ==
    { r \in file_locks : r.path = path /\ TextTicks(r.expires_at) > now }

\* Connection c takes the step that leaves the place "at" of its call.
Leaves(c, at) == pc[c] = at /\ pc'[c] # at

\* C1 - Exclusivity: when lock_file(p, B) runs its check while the row of p is
\* held by another agent A and has not expired, the call returns conflict
\* naming A and the table is left as it was.
C1_Exclusivity ==
    [][\A c \in Clients :
         Leaves(c, "lock_select") =>
            \A r \in LiveRows(frame[c].path) :
               r.agent # frame[c].agent =>
                  /\ pc'[c] = "idle"
                  /\ result'[c] = [status |-> "conflict", holder |-> r.agent,
                                   path |-> frame[c].path]
                  /\ file_locks' = file_locks]_vars

\* A connection holds a conflict answer naming the holder of a live lease.
C1_Witness ==
    \E c \in Clients :
       /\ pc[c] = "idle"
       /\ result[c].status = "conflict"
       /\ \E r \in LiveRows(result[c].path) : r.agent = result[c].holder

\* C2 - Atomic acquire: a grant (the upsert of lock_file) never lands on a
\* path whose row is held by another agent and has not expired, i.e. two
\* interleaved acquires never both see "no conflict".
C2_AtomicAcquire ==
    [][\A c \in Clients :
         Leaves(c, "lock_upsert") =>
            \A r \in LiveRows(frame[c].path) : r.agent = frame[c].agent]_vars

\* C5 - Lease uniqueness: every path has at most one lease row that has not
\* expired.
C5_LeaseUnique ==
    \A p \in Paths : Cardinality(LiveRows(p)) <= 1

\* Two connections have each been granted the same path, which has a live row.
C5_Witness ==
    /\ \A c \in Clients : result[c].status = "locked"
    /\ \E p \in Paths :
          /\ \A c \in Clients : result[c].path = p
          /\ LiveRows(p) # {}

\* C6 - Release authorization: unlock_file(p, B) while the row of p is held by
\* another agent leaves the table as it was.
C6_ReleaseAuthorized ==
    [][\A c \in Clients :
         Leaves(c, "unlock_delete") =>
            ((\E r \in file_locks :
                 r.path = frame[c].path /\ r.agent # frame[c].agent)
               => file_locks' = file_locks)]_vars

\* An unlock by B is about to run on a path whose live lease A holds.
C6_Witness ==
    \E c \in Clients :
       /\ pc[c] = "unlock_delete"
       /\ \E r \in LiveRows(frame[c].path) : r.agent # frame[c].agent

\* C7 - Expiry reclamation: when every row of p had expired by the time
\* lock_file(p, B) read the clock for its check, the check finds no conflict,
\* and the upsert that follows answers locked and leaves B's row as the only
\* row of p.
C7_ExpiryReclaim ==
    [][\A c \in Clients :
         /\ (Leaves(c, "lock_select")
              /\ \A r \in file_locks :
                    r.path = frame[c].path =>
                       TextTicks(r.expires_at) <= TextTicks(frame[c].now_str))
            => pc'[c] = "lock_upsert"
         /\ Leaves(c, "lock_upsert") =>
               /\ result'[c].status = "locked"
               /\ \E r \in file_locks' :
                     /\ r.path = frame[c].path
                     /\ r.agent = frame[c].agent
                     /\ r.expires_at = frame[c].expires_str
                     /\ \A q \in file_locks' : q.path = r.path => q = r]_vars

\* B's acquire has passed its check over the expired row of another holder.
C7_Witness ==
    \E c \in Clients :
       /\ pc[c] = "lock_upsert"
       /\ \E r \in file_locks :
             /\ r.path = frame[c].path
             /\ r.agent # frame[c].agent
             /\ TextTicks(r.expires_at) <= TextTicks(frame[c].now_str)
             /\ TextTicks(r.expires_at) > StartNow

\* C8 as stated - Renewal: lock_file(p, A, ttl) with ttl > 0 on a live lease
\* that A holds computes an expiry not earlier than that lease's, finds no
\* conflict, and its upsert leaves A the holder with an expires_at not earlier
\* than the one it replaces.
C8_RenewalExtends ==
    [][\A c \in Clients :
         /\ (Leaves(c, "idle") /\ pc'[c] = "lock_now"
              /\ frame'[c].ttl_seconds > 0)
            => \A r \in LiveRows(frame'[c].path) :
                  r.agent = frame'[c].agent =>
                     TextTicks(frame'[c].expires_str) >= TextTicks(r.expires_at)
         /\ (Leaves(c, "lock_select") /\ frame[c].ttl_seconds > 0
              /\ \E r \in LiveRows(frame[c].path) : r.agent = frame[c].agent)
            => pc'[c] = "lock_upsert"
         /\ (Leaves(c, "lock_upsert") /\ frame[c].ttl_seconds > 0)
            => \A r \in LiveRows(frame[c].path) :
                  r.agent = frame[c].agent =>
                     \E q \in file_locks' :
                        /\ q.path = r.path
                        /\ q.agent = r.agent
                        /\ TextTicks(q.expires_at) >= TextTicks(r.expires_at)]_vars

\* C8 amended - Renewal: lock_file(p, A, ttl) with ttl > 0 on a live lease
\* that A holds finds no conflict, and its upsert answers locked and leaves
\* A the holder of the only row of p, with the expires_at computed when the
\* call began; in a zone of constant UTC offset that is the clock read then
\* plus ttl.
C8_Renewal ==
    [][\A c \in Clients :
         /\ (Leaves(c, "idle") /\ pc'[c] = "lock_now"
              /\ tz.before = tz.after /\ frame'[c].ttl_seconds > 0)
            => TextTicks(frame'[c].expires_str)
                  = now + TicksPerSecond * frame'[c].ttl_seconds
         /\ (Leaves(c, "lock_select") /\ frame[c].ttl_seconds > 0
              /\ \E r \in LiveRows(frame[c].path) : r.agent = frame[c].agent)
            => pc'[c] = "lock_upsert"
         /\ (Leaves(c, "lock_upsert") /\ frame[c].ttl_seconds > 0
              /\ \E r \in LiveRows(frame[c].path) : r.agent = frame[c].agent)
            => /\ result'[c].status = "locked"
               /\ \A q \in file_locks' :
                     q.path = frame[c].path =>
                        /\ q.agent = frame[c].agent
                        /\ q.expires_at = frame[c].expires_str
               /\ \E q \in file_locks' : q.path = frame[c].path]_vars

\* A renewal with a positive ttl is about to replace A's live lease by one
\* that expires earlier.
C8_Witness ==
    \E c \in Clients :
       /\ pc[c] = "lock_upsert"
       /\ frame[c].ttl_seconds > 0
       /\ \E r \in LiveRows(frame[c].path) :
             /\ r.agent = frame[c].agent
             /\ TextTicks(frame[c].expires_str) < TextTicks(r.expires_at)

\* ---------------------------------------------------------- message claims

\* C3 - Message monotonicity: a read_at that is set is never cleared and never
\* moves back, and a message whose ack_at is set has read_at <= ack_at.
C3_MessageMonotonic ==
    [][\A m \in messages :
         \E n \in messages' :
            /\ n.id = m.id
            /\ m.read_at # NULL =>
                  /\ n.read_at # NULL
                  /\ TextTicks(n.read_at) >= TextTicks(m.read_at)
            /\ n.ack_at # NULL =>
                  /\ n.read_at # NULL
                  /\ TextTicks(n.read_at) <= TextTicks(n.ack_at)]_vars

\* C4 - Ack backfill: ack_message by the recipient on a message whose read_at
\* is NULL leaves read_at = ack_at.
C4_AckBackfill ==
    [][\A c \in Clients :
         Leaves(c, "ack_update") =>
            \A m \in messages :
               (/\ m.id = frame[c].message_id
                /\ m.recipient = frame[c].agent
                /\ m.read_at = NULL)
               => \E n \in messages' :
                     /\ n.id = m.id
                     /\ n.ack_at # NULL
                     /\ n.read_at = n.ack_at]_vars

\* C9 - Cross-recipient isolation: mark_read and ack_message on a message
\* whose recipient is another agent leave the table as it was and still
\* answer read / acknowledged.
C9_RecipientIsolation ==
    [][\A c \in Clients :
         /\ (Leaves(c, "mark_read_update")
              /\ \E m \in messages :
                    m.id = frame[c].message_id /\ m.recipient # frame[c].agent)
            => /\ messages' = messages
               /\ result'[c] = [status |-> "read", id |-> frame[c].message_id]
         /\ (Leaves(c, "ack_update")
              /\ \E m \in messages :
                    m.id = frame[c].message_id /\ m.recipient # frame[c].agent)
            => /\ messages' = messages
               /\ result'[c] = [status |-> "acknowledged",
                                id |-> frame[c].message_id]]_vars

\* The UPDATE of a mark_read or ack_message is about to run on an existing
\* message whose recipient is not the calling agent.
C9_Witness ==
    \E c \in Clients :
       /\ pc[c] \in {"mark_read_update", "ack_update"}
       /\ \E m \in messages :
             /\ m.id = frame[c].message_id
             /\ m.recipient # frame[c].agent

\* C10 - Inbox ordering: in every list fetch_inbox returns, a message sent
\* later (of larger id) comes before one sent earlier.
C10_InboxNewestFirst ==
    \A c \in Clients :
       result[c].status = "rows" =>
          \A i, j \in DOMAIN result[c].rows :
             i < j => result[c].rows[i].id > result[c].rows[j].id

\* C11 - Inbox filtering: when limit is at least the number of matching
\* messages, fetch_inbox(x, unread_only, limit) returns, each once, exactly the
\* messages whose recipient is x, and with unread_only exactly those of them
\* whose read_at is NULL, none of which is acknowledged.
C11_InboxFilter ==
    [][\A c \in Clients :
         Leaves(c, "inbox_select") =>
            LET matching ==
                   { m \in messages :
                        /\ m.recipient = frame[c].agent
                        /\ frame[c].unread_only => m.read_at = NULL }
                returned ==
                   { result'[c].rows[i] : i \in DOMAIN result'[c].rows }
            IN  frame[c].limit >= Cardinality(matching) =>
                   /\ result'[c].status = "rows"
                   /\ Len(result'[c].rows) = Cardinality(returned)
                   /\ returned = matching
                   /\ frame[c].unread_only =>
                         \A m \in returned : m.ack_at = NULL]_vars

\* fetch_inbox(x, unread_only = true) is about to run its SELECT while x has a
\* message that is read and one that is not.
C11_Witness ==
    \E c \in Clients :
       /\ pc[c] = "inbox_select"
       /\ frame[c].unread_only
       /\ frame[c].limit >= Cardinality(messages)
       /\ \E m, n \in messages :
             /\ m.recipient = frame[c].agent
             /\ n.recipient = frame[c].agent
             /\ m.read_at # NULL
             /\ n.read_at = NULL

\* C12 - Idempotent lifecycle transitions: mark_read by the recipient on a
\* message whose read_at is set (READ or ACKNOWLEDGED), and ack_message by the
\* recipient on a message whose ack_at is set (ACKNOWLEDGED), leave the table
\* as it was: neither read_at nor ack_at changes.
C12_IdempotentTransitions ==
    [][\A c \in Clients :
         /\ (Leaves(c, "mark_read_update")
              /\ \E m \in messages :
                    /\ m.id = frame[c].message_id
                    /\ m.recipient = frame[c].agent
                    /\ m.read_at # NULL)
            => messages' = messages
         /\ (Leaves(c, "ack_update")
              /\ \E m \in messages :
                    /\ m.id = frame[c].message_id
                    /\ m.recipient = frame[c].agent
                    /\ m.ack_at # NULL)
            => messages' = messages]_vars

\* ------------------------------------------------- lease claims, continued

\* C13 as stated - Release is a silent no-op on anything not currently held:
\* unlock_file(p, h) always answers unlocked; when p has no row, or its row
\* belongs to another holder, or its row has expired, the table is left as it
\* was; and a second unlock_file(p, h) would change nothing (no row of p held
\* by h is left).
C13_ReleaseNoOp ==
    [][\A c \in Clients :
         Leaves(c, "unlock_delete") =>
            /\ result'[c] = [status |-> "unlocked", path |-> frame[c].path]
            /\ (\A r \in file_locks :
                   r.path = frame[c].path =>
                      \/ r.agent # frame[c].agent
                      \/ TextTicks(r.expires_at) <= now)
               => file_locks' = file_locks
            /\ \A r \in file_locks' :
                  ~(r.path = frame[c].path /\ r.agent = frame[c].agent)]_vars

\* C13 amended - unlock_file(p, h) always answers unlocked; when p has no row
\* or its row belongs to another holder the table is left as it was; when its
\* row is h's own, expired or not, that row and no other is deleted, so that
\* releasing an expired lease leaves the set of live leases as it was; and a
\* second unlock_file(p, h) would change nothing.
C13_Release ==
    [][\A c \in Clients :
         Leaves(c, "unlock_delete") =>
            LET own == { r \in file_locks :
                           r.path = frame[c].path /\ r.agent = frame[c].agent }
            IN  /\ result'[c] = [status |-> "unlocked", path |-> frame[c].path]
                /\ own = {} => file_locks' = file_locks
                /\ file_locks' \subseteq file_locks
                /\ file_locks \ file_locks' = own
                /\ (\A r \in own : TextTicks(r.expires_at) <= now)
                   => \A p \in Paths :
                         { r \in file_locks' : r.path = p
                              /\ TextTicks(r.expires_at) > now } = LiveRows(p)
                /\ \A r \in file_locks' :
                      ~(r.path = frame[c].path /\ r.agent = frame[c].agent)]_vars

\* unlock_file(p, h) is about to run its DELETE on h's own row of p, which has
\* expired.
C13_Witness ==
    \E c \in Clients :
       /\ pc[c] = "unlock_delete"
       /\ \E r \in file_locks :
             /\ r.path = frame[c].path
             /\ r.agent = frame[c].agent
             /\ TextTicks(r.expires_at) <= now

\* C14 - Acquire input constraints: no step of a lock_file call whose path or
\* agent is empty, or whose ttl_seconds is not positive, changes the table or
\* answers locked.
C14_AcquireConstraints ==
    [][\A c \in Clients :
         (/\ pc[c] \in {"lock_now", "lock_select", "lock_upsert"}
          /\ pc'[c] # pc[c]
          /\ \/ frame[c].path = ""
             \/ frame[c].agent = ""
             \/ frame[c].ttl_seconds <= 0)
         => /\ file_locks' = file_locks
            /\ result'[c].status # "locked"]_vars

\* C19 - No permanent lockout, the bound it rests on: a lease blocks other
\* agents for at most its ttl after its last grant or renewal, i.e. the row a
\* grant or a renewal writes expires no later than ttl_seconds after the
\* instant of that write (so that an agent that keeps retrying is granted the
\* path once the ttl has run out).
C19_BlocksAtMostTtl ==
    [][\A c \in Clients :
         Leaves(c, "lock_upsert") =>
            \A r \in file_locks' :
               r.path = frame[c].path =>
                  TextTicks(r.expires_at)
                     <= now + TicksPerSecond * frame[c].ttl_seconds]_vars

\* C17 as stated - Live-lease listing: list_locks(filter) returns, each once,
\* exactly the rows whose expires_at is after the clock it read, restricted to
\* the rows of the holder when a filter is given (is not None); no step of it
\* changes the table.
C17_ListLive ==
    [][\A c \in Clients :
         /\ (Leaves(c, "idle") /\ pc'[c] = "list_select")
            => /\ file_locks' = file_locks
               /\ frame'[c].now_str = isoformat(now)
         /\ Leaves(c, "list_select") =>
               LET live ==
                      { r \in file_locks :
                           TextTicks(r.expires_at)
                              > TextTicks(frame[c].now_str) }
                   returned ==
                      { result'[c].rows[i] : i \in DOMAIN result'[c].rows }
               IN  /\ file_locks' = file_locks
                   /\ result'[c].status = "locks"
                   /\ Len(result'[c].rows) = Cardinality(returned)
                   /\ returned =
                         IF frame[c].agent # NULL
                         THEN { r \in live : r.agent = frame[c].agent[1] }
                         ELSE live]_vars

\* C17 amended - as C17, the rows being restricted to the holder when the
\* filter is a non-empty string; with no filter or the empty string, every
\* live row is returned.
C17_ListLiveFilter ==
    [][\A c \in Clients :
         /\ (Leaves(c, "idle") /\ pc'[c] = "list_select")
            => /\ file_locks' = file_locks
               /\ frame'[c].now_str = isoformat(now)
         /\ Leaves(c, "list_select") =>
               LET live ==
                      { r \in file_locks :
                           TextTicks(r.expires_at)
                              > TextTicks(frame[c].now_str) }
                   returned ==
                      { result'[c].rows[i] : i \in DOMAIN result'[c].rows }
               IN  /\ file_locks' = file_locks
                   /\ result'[c].status = "locks"
                   /\ Len(result'[c].rows) = Cardinality(returned)
                   /\ returned =
                         IF frame[c].agent \notin { NULL, << "" >> }
                         THEN { r \in live : r.agent = frame[c].agent[1] }
                         ELSE live]_vars

\* list_locks(h) is about to run its SELECT on a table that holds a live row
\* of h and an expired row.
C17_Witness ==
    \E c \in Clients :
       /\ pc[c] = "list_select"
       /\ Truthy(frame[c].agent)
       /\ \E r, q \in file_locks :
             /\ r.agent = frame[c].agent[1]
             /\ TextTicks(r.expires_at) > TextTicks(frame[c].now_str)
             /\ TextTicks(q.expires_at) <= TextTicks(frame[c].now_str)

\* ------------------------------------------------ message claims, continued

\* C18 - Append-only message log: every step keeps every message, with its
\* sender, recipient, subject, body and thread_id as they were; ids are
\* unique; the INSERT of send_message adds exactly one message, made of the
\* call's arguments, with read_at = ack_at = NULL and an id larger than every
\* id before it, which the call returns; no other step adds a message.
C18_AppendOnly ==
    [][/\ \A m \in messages :
             \E n \in messages' :
                /\ n.id = m.id
                /\ n.sender = m.sender
                /\ n.recipient = m.recipient
                /\ n.subject = m.subject
                /\ n.body = m.body
                /\ n.thread_id = m.thread_id
       /\ \A m, n \in messages' : m.id = n.id => m = n
       /\ \A c \in Clients :
             Leaves(c, "send_insert") =>
                \E n \in messages' :
                   /\ messages' \ messages = {n}
                   /\ Cardinality(messages') = Cardinality(messages) + 1
                   /\ n.read_at = NULL /\ n.ack_at = NULL
                   /\ n.sender = frame[c].sender
                   /\ n.recipient = frame[c].recipient
                   /\ n.subject = frame[c].subject
                   /\ n.body = frame[c].body
                   /\ n.thread_id = frame[c].thread_id
                   /\ \A m \in messages : m.id < n.id
                   /\ result'[c] = [status |-> "sent", id |-> n.id]
       /\ (\A c \in Clients : ~Leaves(c, "send_insert"))
             => Cardinality(messages') = Cardinality(messages)]_vars

\* A send is about to run its INSERT into a table that holds an acknowledged
\* message, while a mark_read or an ack_message is under way.
C18_Witness ==
    \E c, d \in Clients :
       /\ pc[c] = "send_insert"
       /\ pc[d] \in {"mark_read_update", "ack_update"}
       /\ \E m \in messages : m.ack_at # NULL

\* ----------------------------------------------------------- gateway claims

\* The params of a tools/call are malformed: the name is no tool's, or the
\* arguments are no object, or miss a required property, or hold a property
\* of another type than the tool's schema gives it.
Malformed(params) ==
    \/ params.name \notin DOMAIN TOOLS
    \/ params.arguments.type # "object"
    \/ \E k \in TOOLS[params.name].required :
          k \notin DOMAIN params.arguments.fields
    \/ \E k \in DOMAIN params.arguments.fields :
          /\ k \in DOMAIN TOOLS[params.name].properties
          /\ params.arguments.fields[k].type
                # TOOLS[params.name].properties[k]

\* Gateway process c takes a step of the handling of its request.
Handles(c) ==
    /\ loop[c] \in { "dispatch", "call" }
    /\ loop'[c] # loop[c] \/ pc'[c] # pc[c]

\* C15 - A lease conflict through the gateway: when the check of a lock
\* called through tools/call finds the live lease of another holder, it
\* answers conflict naming that holder and leaves the table as it was; the
\* gateway then writes one response with the id of the request, a result and
\* no error object, whose payload carries status conflict and that holder,
\* and leaves the table as it was; and no step of a lock call but its upsert,
\* which a conflict never reaches, changes the table.
C15_ConflictResult ==
    [][\A c \in Clients :
         /\ (Handles(c) /\ Leaves(c, "lock_select")
              /\ result'[c].status = "conflict")
            => /\ file_locks' = file_locks
               /\ pc'[c] = "idle"
               /\ \E r \in LiveRows(frame[c].path) :
                     /\ r.agent # frame[c].agent
                     /\ r.agent = result'[c].holder
         /\ (Handles(c) /\ loop[c] = "call" /\ loop'[c] = "read"
              /\ result[c].status = "conflict")
            => /\ file_locks' = file_locks
               /\ Len(stdout'[c]) = 1
               /\ stdout'[c][1].id = msg[c].id
               /\ DOMAIN stdout'[c][1] = { "id", "result" }
               /\ stdout'[c][1].result.content.status = "conflict"
               /\ stdout'[c][1].result.content.holder = result[c].holder
         /\ (Handles(c) /\ msg[c].method = "tools/call"
              /\ msg[c].params.name = "lock" /\ pc[c] # "lock_upsert")
            => file_locks' = file_locks]_vars

\* The lock called for a request has returned conflict, and the gateway is
\* about to answer the request.
C15_Witness ==
    \E c \in Clients :
       /\ loop[c] = "call"
       /\ pc[c] = "idle"
       /\ msg[c].params.name = "lock"
       /\ result[c].status = "conflict"

\* C16 - Malformed requests: no step of the handling of a tools/call request
\* that is malformed changes a lease or a message row or ends the process,
\* and the handling ends with exactly one response written, an error object
\* with the id of the request, the gateway being back at reading.
C16_MalformedRequests ==
    [][\A c \in Clients :
         (/\ Handles(c)
          /\ msg[c].method = "tools/call"
          /\ Malformed(msg[c].params))
         => /\ file_locks' = file_locks
            /\ messages' = messages
            /\ loop'[c] # "exit"
            /\ loop'[c] = "read" =>
                  /\ Len(stdout'[c]) = 1
                  /\ stdout'[c][1].id = msg[c].id
                  /\ DOMAIN stdout'[c][1] = { "id", "error" }]_vars

\* C20 - Request/response discipline: a gateway reads a line only when the
\* handling of the line before is over; while it handles a request it has
\* written nothing, and it writes nothing but on the step that ends the
\* handling; that step leaves exactly one response, with the id of the
\* request and either a result or an error object, for initialize,
\* tools/list, tools/call and an unknown method, and none for
\* notifications/initialized; the handling never ends the process.
C20_RequestResponse ==
    [][\A c \in Clients :
         /\ (msg'[c] # msg[c] /\ msg'[c] # NULL)
            => /\ loop[c] = "read"
               /\ msg[c] = NULL
               /\ loop'[c] = "dispatch"
               /\ stdout'[c] = <<>>
         /\ loop[c] \in { "dispatch", "call" } =>
               /\ stdout[c] = <<>>
               /\ loop'[c] # "exit"
               /\ loop'[c] # "read" =>
                     /\ stdout'[c] = <<>>
                     /\ msg'[c] = msg[c]
               /\ loop'[c] = "read" =>
                     IF msg[c].method = "notifications/initialized"
                     THEN stdout'[c] = <<>>
                     ELSE /\ Len(stdout'[c]) = 1
                          /\ stdout'[c][1].id = msg[c].id
                          /\ DOMAIN stdout'[c][1]
                                \in { { "id", "result" }, { "id", "error" } }
]_vars

\* Every request has been read, and the gateways are back at reading, one
\* having answered its last request with a result, one with an error.
C20_Witness ==
    /\ calls = MaxReqs
    /\ \A c \in Clients : loop[c] = "read" /\ Len(stdout[c]) = 1
    /\ \E c, d \in Clients :
          /\ "result" \in DOMAIN stdout[c][1]
          /\ "error" \in DOMAIN stdout[d][1]

=============================================================================
